---- MODULE Spec2Model ----
(***************************************************************************)
(* PiRateVision: the Capture Agent (src/src/main.rs) and the Inference     *)
(* Agent (src/src/processing/main.rs) as two single-threaded processes     *)
(* joined by a ZeroMQ PUSH/PULL channel.  Each process is a program        *)
(* counter over the statements of its source file; the outcomes of the     *)
(* library calls (OpenCV, ZeroMQ, ONNX Runtime) are chosen by the          *)
(* environment.                                                            *)
(***************************************************************************)
EXTENDS Integers, Sequences, FiniteSets, TLC

\* ---------------------------------------------------------------- bounds
\* failed attempts the environment may inject into one call of a channel or
\* camera acquisition routine
MaxFail == 2
\* failed model loads the environment may inject (the spec's scenario needs 3)
MaxLoadFail == 3
\* camera read errors the environment may inject (each one re-acquires)
MaxReacq == 1
\* non-empty frames the camera delivers
MaxFrames == 3
\* messages the transport holds before a non-blocking send would block
ChanCap == 2

\* ------------------------------------------------------- program constants
TickMs == 33
CamRetryMs == 1000
BindRetryMs == 1000
ConnectRetryMs == 2000
ModelRetryMs == 5000
RecvRetryMs == 1000
FrameWidth == 640
FrameHeight == 480
\* the shape handed to Array::from_shape_vec
TensorShape == <<1, 3, 224, 224>>

RECURSIVE Product(_)
Product(s) == IF s = <<>> THEN 1 ELSE Head(s) * Product(Tail(s))

\* byte lengths of `encoded` after imencode has encoded a non-empty frame
\* (Ok(true)): one that happens to fit the tensor shape, and one that does not.
\* After Ok(false) the buffer holds no frame and its length is 0 (EncodeFalseC).
PayloadLens == {Product(TensorShape), Product(TensorShape) - 1}

NoHandle == 0
\* A new handle takes the lowest number no open handle has, as a descriptor does.
NewHandle(open) ==
  CHOOSE n \in 1..(Cardinality(open) + 1) :
    n \notin open /\ \A m \in 1..(n - 1) : m \in open
NoFrame == 0
NoPayload == [id |-> 0, len |-> 0]

VARIABLES
  cap,        \* the Capture Agent: its locals and the history of the current tick
  inf,        \* the Inference Agent: its locals and the history of the current frame
  chan,       \* messages queued in the transport, oldest first
  sentSeq,    \* payloads whose send returned Ok, in order
  failedIds,  \* frames whose send returned Err
  blockedIds, \* those of them whose send returned EAGAIN
  recvSeq,    \* payloads recv_bytes returned, in order
  dropped,    \* some captured frame was dropped (encode failed or send failed)
  pipe        \* the PUSH socket's pipe to the PULL peer, as the socket's I/O
              \* thread knows it: "none", "up" or "down"

vars == <<cap, inf, chan, sentSeq, failedIds, blockedIds, recvSeq, dropped, pipe>>
varsCh == <<chan, sentSeq, failedIds, blockedIds, recvSeq, dropped, pipe>>

\* ------------------------------------------------------------------ Init
\* The Capture Agent on entry to run_capture_loop.
\*   pc         statement the agent is at
\*   sock       `socket` of run_capture_loop (NoHandle until setup_socket returns)
\*   sockTmp    `socket` inside setup_socket
\*   sockCalls  calls of setup_socket so far
\*   cam        `cam` of run_capture_loop
\*   camNew     `cam` inside setup_camera
\*   tmpAtt     the attempt of the call in progress that produced sockTmp or camNew
\*   openSocks  sockets created and not yet dropped
\*   camRetTo   call site setup_camera returns to: "init" (line 44), "reacq" (line 63)
\*   openCams   VideoCapture values constructed and not yet dropped
\*   camOpens   successful VideoCapture::new calls so far
\*   reacq      calls of setup_camera completed since the last camera read
\*   lastCamRet the handle the last completed setup_camera returned
\*   failedCam  the handle the last camera read failed on
\*   readErrs   camera read errors so far
\*   setFailed  the properties cam.set(..) failed to set in the current open attempt
\*   att, fail  attempts and failed attempts of the acquisition call in progress
\*   frame      `frame`: NoFrame, or the number of the read that filled it
\*   enc        `encoded`
\*   outcome    how the current tick went
\*   sends      send attempts in the current tick
\*   log        diagnostics written since the tick or the attempt began
\*   sleeps     sleeps since the last read or acquisition attempt
\*   frameSeq   non-empty frames read so far
InitCap ==
  [pc |-> "start", sock |-> NoHandle, sockTmp |-> NoHandle, sockCalls |-> 0,
   cam |-> NoHandle, camNew |-> NoHandle, tmpAtt |-> 0, camRetTo |-> "none",
   openSocks |-> {}, openCams |-> {}, camOpens |-> 0, reacq |-> 0, lastCamRet |-> NoHandle,
   failedCam |-> NoHandle, readErrs |-> 0, setFailed |-> {}, att |-> 0, fail |-> 0,
   frame |-> NoFrame, enc |-> NoPayload, outcome |-> "none", sends |-> 0,
   log |-> {}, sleeps |-> <<>>, frameSeq |-> 0]

\* The Inference Agent on entry to run_processing_loop.
\*   sess        `session` of run_processing_loop
\*   sessTmp     the session built inside setup_model
\*   tmpAtt      the attempt of the call in progress that produced sockTmp or sessTmp
\*   openSocks   sockets created and not yet dropped
\*   openSess    sessions built and not dropped
\*   loadsOk     successful model loads so far
\*   modelCalls  calls of setup_model so far
\*   res         the Result the last acquisition routine returned
\*   cur         `frame_data` being processed
\*   emits       results printed for the current frame
InitInf ==
  [pc |-> "start", sock |-> NoHandle, sockTmp |-> NoHandle, sockCalls |-> 0,
   sess |-> NoHandle, sessTmp |-> NoHandle, tmpAtt |-> 0, openSocks |-> {},
   openSess |-> {}, loadsOk |-> 0,
   modelCalls |-> 0, res |-> "none", att |-> 0, fail |-> 0,
   cur |-> NoPayload, outcome |-> "none", emits |-> 0, log |-> {}, sleeps |-> <<>>]

Init ==
  /\ cap = InitCap
  /\ inf = InitInf
  /\ chan = <<>>
  /\ sentSeq = <<>>
  /\ failedIds = {}
  /\ blockedIds = {}
  /\ recvSeq = <<>>
  /\ dropped = FALSE
  /\ pipe = "none"

\* ------------------------------------------------- Capture Agent: startup
\* CallSetupSocketC with lines 41 and 44 the other way round: the camera is
\* acquired first
CallSetupCameraFirstC ==
  /\ cap.pc = "start"
  /\ cap' = [cap EXCEPT !.pc = "cam_open", !.camRetTo = "init", !.att = 0, !.fail = 0]
  /\ UNCHANGED <<inf, varsCh>>

\* run_capture_loop, line 41: let socket = setup_socket(&context, "tcp://*:5555")
CallSetupSocketC ==
  /\ cap.pc = "start"
  /\ cap' = [cap EXCEPT !.pc = "sock_create", !.sockCalls = @ + 1,
                        !.att = 0, !.fail = 0]
  /\ UNCHANGED <<inf, varsCh>>

\* setup_socket, lines 75-76: context.socket(zmq::PUSH) returns Ok(socket)
SockCreateOkC ==
  /\ cap.pc = "sock_create"
  /\ cap' = [cap EXCEPT !.pc = "sock_bind", !.att = @ + 1,
                        !.sockTmp = NewHandle(cap.openSocks), !.tmpAtt = cap.att + 1,
                        !.openSocks = @ \cup {NewHandle(cap.openSocks)},
                        !.log = {}, !.sleeps = <<>>]
  /\ UNCHANGED <<inf, varsCh>>

\* setup_socket, line 81: context.socket(zmq::PUSH) returns Err: logged, retried
SockCreateErrC ==
  /\ cap.pc = "sock_create"
  /\ cap.fail < MaxFail
  /\ cap' = [cap EXCEPT !.pc = "sock_sleep", !.att = @ + 1, !.fail = @ + 1,
                        !.log = {"Failed to create or bind ZeroMQ socket, retrying..."},
                        !.sleeps = <<>>]
  /\ UNCHANGED <<inf, varsCh>>

\* The pipe once one of the two endpoints has come up: it is there when the
\* other endpoint is up as well, bound (main.rs, line 77) or connected and not
\* closed (processing/main.rs, lines 75-76).
PipeAfterUp(p, otherUp) == IF p = "none" /\ otherUp THEN "up" ELSE p

\* setup_socket, lines 77-79: bind succeeds, the socket is about to be returned
SockBindOkC ==
  /\ cap.pc = "sock_bind"
  /\ cap' = [cap EXCEPT !.pc = "sock_ret"]
  /\ pipe' = PipeAfterUp(pipe, inf.sock # NoHandle \/ inf.pc = "sock_ret")
  /\ UNCHANGED <<inf, chan, sentSeq, failedIds, blockedIds, recvSeq, dropped>>

\* SockBindErrC with the sleep in the Err arm of the match only: a failed bind
\* is retried at once
SockBindErrNoSleepC ==
  /\ cap.pc = "sock_bind"
  /\ cap.fail < MaxFail
  /\ cap' = [cap EXCEPT !.pc = "sock_create", !.fail = @ + 1, !.sockTmp = NoHandle,
                        !.tmpAtt = 0, !.openSocks = @ \ {cap.sockTmp}]
  /\ UNCHANGED <<inf, varsCh>>

\* setup_socket, lines 77-80: bind fails: nothing is logged, the socket goes out
\* of scope and the attempt is retried
SockBindErrC ==
  /\ cap.pc = "sock_bind"
  /\ cap.fail < MaxFail
  /\ cap' = [cap EXCEPT !.pc = "sock_sleep", !.fail = @ + 1, !.sockTmp = NoHandle,
                        !.tmpAtt = 0, !.openSocks = @ \ {cap.sockTmp}]
  /\ UNCHANGED <<inf, varsCh>>

\* setup_socket, line 83: sleep 1 s, then the next turn of the loop
SockSleepC ==
  /\ cap.pc = "sock_sleep"
  /\ cap' = [cap EXCEPT !.pc = "sock_create", !.sleeps = Append(@, BindRetryMs)]
  /\ UNCHANGED <<inf, varsCh>>

\* setup_socket, line 78 and run_capture_loop, line 41: return socket
SockRetC ==
  /\ cap.pc = "sock_ret"
  /\ cap' = [cap EXCEPT !.pc = "cam_call", !.sock = cap.sockTmp, !.sockTmp = NoHandle,
                        !.tmpAtt = 0, !.att = 0, !.fail = 0]
  /\ UNCHANGED <<inf, varsCh>>

\* run_capture_loop, line 44: let mut cam = setup_camera()
CallSetupCameraC ==
  /\ cap.pc = "cam_call"
  /\ cap' = [cap EXCEPT !.pc = "cam_open", !.camRetTo = "init", !.att = 0, !.fail = 0]
  /\ UNCHANGED <<inf, varsCh>>

\* setup_camera, lines 105-106: VideoCapture::new(0, CAP_ANY) returns Ok(cam).
\* The new handle is open from here on; a handle still held by the caller's
\* `cam` stays open beside it.
CamOpenOkC ==
  /\ cap.pc = "cam_open"
  /\ cap' = [cap EXCEPT !.pc = "cam_setw", !.att = @ + 1, !.camOpens = @ + 1,
                        !.camNew = NewHandle(cap.openCams), !.tmpAtt = cap.att + 1,
                        !.openCams = @ \cup {NewHandle(cap.openCams)},
                        !.setFailed = {}, !.log = {}, !.sleeps = <<>>]
  /\ UNCHANGED <<inf, varsCh>>

\* setup_camera, line 111: VideoCapture::new returns Err: logged, retried
CamOpenErrC ==
  /\ cap.pc = "cam_open"
  /\ cap.fail < MaxFail
  /\ cap' = [cap EXCEPT !.pc = "cam_sleep", !.att = @ + 1, !.fail = @ + 1,
                        !.log = {"Failed to initialize camera, retrying..."},
                        !.sleeps = <<>>]
  /\ UNCHANGED <<inf, varsCh>>

\* CamSetWidthC taking a refused width for a failed attempt: the handle is
\* dropped and the open is retried after the sleep
CamSetWidthRetryC ==
  /\ cap.pc = "cam_setw"
  /\ \E ok \in BOOLEAN :
       cap' = IF ok
                THEN [cap EXCEPT !.pc = "cam_seth"]
                ELSE [cap EXCEPT !.pc = "cam_sleep", !.fail = @ + 1,
                                 !.setFailed = @ \cup {FrameWidth},
                                 !.openCams = @ \ {cap.camNew},
                                 !.camNew = NoHandle, !.tmpAtt = 0]
  /\ UNCHANGED <<inf, varsCh>>

\* setup_camera, line 107: cam.set(CAP_PROP_FRAME_WIDTH, 640.0).ok(): the result
\* is discarded
CamSetWidthC ==
  /\ cap.pc = "cam_setw"
  /\ \E ok \in BOOLEAN :
       cap' = [cap EXCEPT !.pc = "cam_seth",
                          !.setFailed = @ \cup (IF ok THEN {} ELSE {FrameWidth})]
  /\ UNCHANGED <<inf, varsCh>>

\* setup_camera, line 108: cam.set(CAP_PROP_FRAME_HEIGHT, 480.0).ok()
CamSetHeightC ==
  /\ cap.pc = "cam_seth"
  /\ \E ok \in BOOLEAN :
       cap' = [cap EXCEPT !.pc = "cam_ret",
                          !.setFailed = @ \cup (IF ok THEN {} ELSE {FrameHeight})]
  /\ UNCHANGED <<inf, varsCh>>

\* setup_camera, line 113: sleep 1 s, then the next turn of the loop
CamSleepC ==
  /\ cap.pc = "cam_sleep"
  /\ cap' = [cap EXCEPT !.pc = "cam_open", !.sleeps = Append(@, CamRetryMs)]
  /\ UNCHANGED <<inf, varsCh>>

\* The VideoCapture values open once the caller's `cam` has been assigned the
\* returned handle: the assignment drops the value `cam` held before
\* (lines 44 and 63).
OpenAfterAssign(open, old) == open \ {old}

\* CamRetC with a `continue` after the re-acquisition: the next read follows
\* at once
CamRetNoSleepC ==
  /\ cap.pc = "cam_ret"
  /\ cap' = [cap EXCEPT !.pc = "read",
                        !.cam = cap.camNew, !.lastCamRet = cap.camNew,
                        !.openCams = OpenAfterAssign(@, cap.cam),
                        !.camNew = NoHandle, !.tmpAtt = 0, !.setFailed = {},
                        !.reacq = @ + 1, !.att = 0, !.fail = 0, !.camRetTo = "none"]
  /\ UNCHANGED <<inf, varsCh>>

\* setup_camera, line 109: return cam; and the caller's assignment to `cam`
\* (line 44: let mut cam = ..; line 63: cam = ..)
CamRetC ==
  /\ cap.pc = "cam_ret"
  /\ cap' = [cap EXCEPT !.pc = IF cap.camRetTo = "init" THEN "read" ELSE "tick_sleep",
                        !.cam = cap.camNew, !.lastCamRet = cap.camNew,
                        !.openCams = OpenAfterAssign(@, cap.cam),
                        !.camNew = NoHandle, !.tmpAtt = 0, !.setFailed = {},
                        !.reacq = @ + 1, !.att = 0, !.fail = 0, !.camRetTo = "none"]
  /\ UNCHANGED <<inf, varsCh>>

\* ------------------------------------------------ Capture Agent: the loop
\* The tick's history fields as they are when a camera read begins.
NewTick(c) == [c EXCEPT !.outcome = "none", !.log = {}, !.sends = 0, !.reacq = 0,
                        !.failedCam = NoHandle, !.sleeps = <<>>,
                        !.frame = NoFrame, !.enc = NoPayload]

\* lines 48-50: cam.read(&mut frame) returns Ok and the frame is not empty
ReadOkC ==
  /\ cap.pc = "read"
  /\ cap.frameSeq < MaxFrames
  /\ cap' = [NewTick(cap) EXCEPT !.pc = "encode", !.frameSeq = @ + 1,
                                 !.frame = cap.frameSeq + 1]
  /\ UNCHANGED <<inf, varsCh>>

\* ReadEmptyC treating an empty frame as a camera fault: it re-acquires
ReadEmptyReacqC ==
  /\ cap.pc = "read"
  /\ cap' = [NewTick(cap) EXCEPT !.pc = "cam_open", !.outcome = "empty",
                                 !.log = {"Empty frame captured, retrying..."},
                                 !.camRetTo = "reacq", !.att = 0, !.fail = 0]
  /\ UNCHANGED <<inf, varsCh>>

\* line 60: cam.read returns Ok and the frame is empty: logged, nothing else
ReadEmptyC ==
  /\ cap.pc = "read"
  /\ cap' = [NewTick(cap) EXCEPT !.pc = "tick_sleep", !.outcome = "empty",
                                 !.log = {"Empty frame captured, retrying..."}]
  /\ UNCHANGED <<inf, varsCh>>

\* ReadErrC with the call of setup_camera left out: the loop goes on with the
\* handle the read failed on
ReadErrNoReacqC ==
  /\ cap.pc = "read"
  /\ cap.readErrs < MaxReacq
  /\ cap' = [NewTick(cap) EXCEPT !.pc = "tick_sleep", !.outcome = "read_err",
                                 !.log = {"Camera error, attempting to reconnect..."},
                                 !.failedCam = cap.cam, !.readErrs = @ + 1]
  /\ UNCHANGED <<inf, varsCh>>

\* lines 61-64: cam.read returns Err: logged, and setup_camera is called while
\* `cam` still holds the handle the read failed on
ReadErrC ==
  /\ cap.pc = "read"
  /\ cap.readErrs < MaxReacq
  /\ cap' = [NewTick(cap) EXCEPT !.pc = "cam_open", !.outcome = "read_err",
                                 !.log = {"Camera error, attempting to reconnect..."},
                                 !.failedCam = cap.cam, !.readErrs = @ + 1,
                                 !.camRetTo = "reacq", !.att = 0, !.fail = 0]
  /\ UNCHANGED <<inf, varsCh>>

\* lines 52-53: imencode returns Ok(false): the frame was not encoded and
\* `encoded` is as line 52 made it, empty.  `if let Ok(_)` does not look at
\* the bool, so the empty buffer goes to the send of line 55.
EncodeFalseC ==
  /\ cap.pc = "encode"
  /\ cap' = [cap EXCEPT !.pc = "send", !.enc = [id |-> cap.frame, len |-> 0]]
  /\ UNCHANGED <<inf, varsCh>>

\* lines 52-53: imencode returns Ok(true): `encoded` holds the JPEG bytes
EncodeOkC ==
  /\ cap.pc = "encode"
  /\ \E n \in PayloadLens :
       cap' = [cap EXCEPT !.pc = "send",
                          !.enc = [id |-> cap.frame, len |-> n]]
  /\ UNCHANGED <<inf, varsCh>>

\* The diagnostics after imencode returned Err: line 53 has no else branch
LogAfterEncodeErr(log) == log

\* line 53: imencode returns Err: the frame is skipped
EncodeErrC ==
  /\ cap.pc = "encode"
  /\ cap' = [cap EXCEPT !.pc = "tick_sleep", !.outcome = "encode_err",
                        !.log = LogAfterEncodeErr(@)]
  /\ dropped' = TRUE
  /\ UNCHANGED <<inf, chan, sentSeq, failedIds, blockedIds, recvSeq, pipe>>

\* ChanAfterSend queueing the message whatever send returned
ChanAfterSendAlways(ch, payload, ok) == Append(ch, payload)

\* What the transport holds after socket.send(bytes, DONTWAIT) returned:
\* Ok has queued a copy of the bytes, Err has queued nothing.
ChanAfterSend(ch, payload, ok) ==
  IF ok THEN Append(ch, payload) ELSE ch

\* The PUSH socket has a pipe to a peer, so that a send can queue (line 89).
\* A PUSH socket without one queues nothing.  The pipe outlives the peer
\* until the socket's I/O thread has found the peer gone.
PeerConnected == pipe = "up"

\* The I/O thread of the Capture Agent's socket finds that the peer's socket
\* was closed (the Inference Agent's process has ended): from here on a send
\* has nowhere to queue.  What was queued for the peer is never received.
PipeDownC ==
  /\ pipe = "up"
  /\ inf.pc \in {"panicked", "returned_err"}
  /\ pipe' = "down"
  /\ UNCHANGED <<cap, inf, chan, sentSeq, failedIds, blockedIds, recvSeq, dropped>>

\* try_send, lines 89-90, and line 55: send returns Ok: the peer is there and
\* the queue has room
SendOkC ==
  /\ cap.pc = "send"
  /\ PeerConnected
  /\ Len(chan) < ChanCap
  /\ cap' = [cap EXCEPT !.pc = "tick_sleep", !.outcome = "sent", !.sends = @ + 1,
                        !.enc = NoPayload]
  /\ sentSeq' = Append(sentSeq, cap.enc)
  /\ chan' = ChanAfterSend(chan, cap.enc, TRUE)
  /\ UNCHANGED <<inf, failedIds, blockedIds, recvSeq, dropped, pipe>>

\* SendWouldBlockC keeping `encoded` and trying the same frame again
SendWouldBlockKeepC ==
  /\ cap.pc = "send"
  /\ cap' = [cap EXCEPT !.pc = "send", !.outcome = "send_eagain", !.sends = 1,
                        !.log = {"Socket is busy, will retry later",
                                 "Failed to send frame, will retry later"}]
  /\ chan' = ChanAfterSend(chan, cap.enc, FALSE)
  /\ failedIds' = failedIds \cup {cap.enc.id}
  /\ blockedIds' = blockedIds \cup {cap.enc.id}
  /\ dropped' = TRUE
  /\ UNCHANGED <<inf, sentSeq, recvSeq, pipe>>

\* try_send, lines 91-94, and lines 55-57: send returns EAGAIN (the consumer is
\* absent or not keeping up): two diagnostics, the frame is not kept
SendWouldBlockC ==
  /\ cap.pc = "send"
  /\ cap' = [cap EXCEPT !.pc = "tick_sleep", !.outcome = "send_eagain",
                        !.sends = @ + 1, !.enc = NoPayload,
                        !.log = {"Socket is busy, will retry later",
                                 "Failed to send frame, will retry later"}]
  /\ chan' = ChanAfterSend(chan, cap.enc, FALSE)
  /\ failedIds' = failedIds \cup {cap.enc.id}
  /\ blockedIds' = blockedIds \cup {cap.enc.id}
  /\ dropped' = TRUE
  /\ UNCHANGED <<inf, sentSeq, recvSeq, pipe>>

\* try_send, lines 95-98, and lines 55-57: send returns another error
SendErrC ==
  /\ cap.pc = "send"
  /\ cap' = [cap EXCEPT !.pc = "tick_sleep", !.outcome = "send_err",
                        !.sends = @ + 1, !.enc = NoPayload,
                        !.log = {"Error sending data, will retry later",
                                 "Failed to send frame, will retry later"}]
  /\ chan' = ChanAfterSend(chan, cap.enc, FALSE)
  /\ failedIds' = failedIds \cup {cap.enc.id}
  /\ dropped' = TRUE
  /\ UNCHANGED <<inf, sentSeq, blockedIds, recvSeq, pipe>>

\* line 68: sleep 33 ms; line 69: the loop body ends and `frame` is dropped
TickSleepC ==
  /\ cap.pc = "tick_sleep"
  /\ cap' = [cap EXCEPT !.pc = "read", !.sleeps = Append(@, TickMs),
                        !.frame = NoFrame]
  /\ UNCHANGED <<inf, varsCh>>

\* CaptureNext with a send without DONTWAIT: the send returns only once the
\* peer is there and the queue has room
CaptureNextBlockingSend ==
  \/ CallSetupSocketC \/ SockCreateOkC \/ SockCreateErrC \/ SockBindOkC
  \/ SockBindErrC \/ SockSleepC \/ SockRetC
  \/ CallSetupCameraC \/ CamOpenOkC \/ CamOpenErrC \/ CamSetWidthC
  \/ CamSetHeightC \/ CamSleepC \/ CamRetC
  \/ ReadOkC \/ ReadEmptyC \/ ReadErrC \/ EncodeOkC \/ EncodeFalseC
  \/ EncodeErrC
  \/ SendOkC \/ TickSleepC \/ PipeDownC

CaptureNext ==
  \/ CallSetupSocketC \/ SockCreateOkC \/ SockCreateErrC \/ SockBindOkC
  \/ SockBindErrC \/ SockSleepC \/ SockRetC
  \/ CallSetupCameraC \/ CamOpenOkC \/ CamOpenErrC \/ CamSetWidthC
  \/ CamSetHeightC \/ CamSleepC \/ CamRetC
  \/ ReadOkC \/ ReadEmptyC \/ ReadErrC \/ EncodeOkC \/ EncodeFalseC
  \/ EncodeErrC
  \/ SendOkC \/ SendWouldBlockC \/ SendErrC \/ TickSleepC \/ PipeDownC

\* ----------------------------------------------- Inference Agent: startup
\* run_processing_loop, line 44: setup_socket(&context, &zmq_address)
CallSetupSocketI ==
  /\ inf.pc = "start"
  /\ inf' = [inf EXCEPT !.pc = "sock_create", !.sockCalls = @ + 1,
                        !.att = 0, !.fail = 0, !.res = "none"]
  /\ UNCHANGED <<cap, varsCh>>

\* setup_socket, lines 74-75: context.socket(zmq::PULL) returns Ok(socket)
SockCreateOkI ==
  /\ inf.pc = "sock_create"
  /\ inf' = [inf EXCEPT !.pc = "sock_connect", !.att = @ + 1,
                        !.sockTmp = NewHandle(inf.openSocks), !.tmpAtt = inf.att + 1,
                        !.openSocks = @ \cup {NewHandle(inf.openSocks)},
                        !.log = {}, !.sleeps = <<>>]
  /\ UNCHANGED <<cap, varsCh>>

\* setup_socket, lines 82-85: context.socket returns Err: logged, sleep 2 s
SockCreateErrI ==
  /\ inf.pc = "sock_create"
  /\ inf.fail < MaxFail
  /\ inf' = [inf EXCEPT !.pc = "sock_create", !.att = @ + 1, !.fail = @ + 1,
                        !.log = {"Error creating ZeroMQ socket. Retrying..."},
                        !.sleeps = <<ConnectRetryMs>>]
  /\ UNCHANGED <<cap, varsCh>>

\* setup_socket, line 76: connect returns Ok: return Ok(socket)
SockConnectOkI ==
  /\ inf.pc = "sock_connect"
  /\ inf' = [inf EXCEPT !.pc = "sock_ret", !.res = "ok"]
  /\ pipe' = PipeAfterUp(pipe, cap.sock # NoHandle \/ cap.pc = "sock_ret")
  /\ UNCHANGED <<cap, chan, sentSeq, failedIds, blockedIds, recvSeq, dropped>>

\* SockConnectErrI giving up: the error is returned instead of retried
SockConnectErrGiveUpI ==
  /\ inf.pc = "sock_connect"
  /\ inf.fail < MaxFail
  /\ inf' = [inf EXCEPT !.pc = "sock_ret", !.fail = @ + 1, !.res = "err",
                        !.log = {"Failed to connect to socket. Retrying..."}]
  /\ UNCHANGED <<cap, varsCh>>

\* setup_socket, lines 77-78: connect returns Err: logged.  The socket is a
\* binding of the enclosing Ok arm and stays open.
SockConnectErrI ==
  /\ inf.pc = "sock_connect"
  /\ inf.fail < MaxFail
  /\ inf' = [inf EXCEPT !.pc = "sock_sleep", !.fail = @ + 1,
                        !.log = {"Failed to connect to socket. Retrying..."}]
  /\ UNCHANGED <<cap, varsCh>>

\* setup_socket, lines 79-81: sleep 2 s with the socket still open; the Ok arm
\* ends after it, the socket goes out of scope, and the loop takes its next
\* turn
SockSleepI ==
  /\ inf.pc = "sock_sleep"
  /\ inf' = [inf EXCEPT !.pc = "sock_create", !.sleeps = Append(@, ConnectRetryMs),
                        !.sockTmp = NoHandle, !.tmpAtt = 0,
                        !.openSocks = @ \ {inf.sockTmp}]
  /\ UNCHANGED <<cap, varsCh>>

\* run_processing_loop, line 44: let socket = setup_socket(..)?  The `?`
\* returns from run_processing_loop when the routine returned Err.
SockRetI ==
  /\ inf.pc = "sock_ret"
  /\ inf' = IF inf.res = "ok"
              THEN [inf EXCEPT !.pc = "env_build", !.sock = inf.sockTmp,
                               !.sockTmp = NoHandle, !.tmpAtt = 0,
                               !.att = 0, !.fail = 0]
              ELSE [inf EXCEPT !.pc = "returned_err", !.sockTmp = NoHandle,
                               !.openSocks = @ \ {inf.sockTmp}]
  /\ UNCHANGED <<cap, varsCh>>

\* lines 47-51: Environment::builder()..build() returns Ok
EnvBuildOkI ==
  /\ inf.pc = "env_build"
  /\ inf' = [inf EXCEPT !.pc = "model_call"]
  /\ UNCHANGED <<cap, varsCh>>

\* line 51: build() returns Err and .expect(..) panics: the message is
\* written, the unwinding of run_processing_loop drops `socket`, and the
\* process ends
EnvBuildPanicI ==
  /\ inf.pc = "env_build"
  /\ inf' = [inf EXCEPT !.pc = "panicked", !.sock = NoHandle,
                        !.openSocks = @ \ {inf.sock},
                        !.log = {"Failed to create ONNX Runtime environment"}]
  /\ UNCHANGED <<cap, varsCh>>

\* line 53: setup_model(&environment, &model_path)
CallSetupModelI ==
  /\ inf.pc = "model_call"
  /\ inf' = [inf EXCEPT !.pc = "model_load", !.modelCalls = @ + 1,
                        !.att = 0, !.fail = 0, !.res = "none"]
  /\ UNCHANGED <<cap, varsCh>>

\* setup_model, lines 92-95: the session builder chain returns Ok(session):
\* return Ok(session)
ModelLoadOkI ==
  /\ inf.pc = "model_load"
  /\ inf' = [inf EXCEPT !.pc = "model_ret", !.att = @ + 1, !.loadsOk = @ + 1,
                        !.sessTmp = NewHandle(inf.openSess), !.tmpAtt = inf.att + 1,
                        !.openSess = @ \cup {NewHandle(inf.openSess)},
                        !.res = "ok", !.log = {}, !.sleeps = <<>>]
  /\ UNCHANGED <<cap, varsCh>>

\* setup_model, lines 96-99: the chain returns Err: logged, sleep 5 s
ModelLoadErrI ==
  /\ inf.pc = "model_load"
  /\ inf.fail < MaxLoadFail
  /\ inf' = [inf EXCEPT !.pc = "model_load", !.att = @ + 1, !.fail = @ + 1,
                        !.log = {"Failed to load model. Retrying..."},
                        !.sleeps = <<ModelRetryMs>>]
  /\ UNCHANGED <<cap, varsCh>>

\* line 53: let session = setup_model(..)?
ModelRetI ==
  /\ inf.pc = "model_ret"
  /\ inf' = IF inf.res = "ok"
              THEN [inf EXCEPT !.pc = "recv", !.sess = inf.sessTmp,
                               !.sessTmp = NoHandle, !.tmpAtt = 0,
                               !.att = 0, !.fail = 0,
                               !.log = {}, !.sleeps = <<>>]
              ELSE [inf EXCEPT !.pc = "returned_err", !.sessTmp = NoHandle,
                               !.openSess = @ \ {inf.sessTmp}]
  /\ UNCHANGED <<cap, varsCh>>

\* ---------------------------------------------- Inference Agent: the loop
\* The frame's history fields as they are when a receive begins.
NewFrame(i) == [i EXCEPT !.outcome = "none", !.log = {}, !.emits = 0,
                         !.cur = NoPayload]

\* RecvPick taking the newest queued message
RecvPickNewest(ch) == Len(ch)

\* line 57: the position in the queue of the message recv_bytes returns: a
\* PULL socket hands over the oldest message of its one peer
RecvPick(ch) == 1

\* RecvOkI for a receive that does not wait: with nothing queued it returns
\* an empty message
RecvOkNoWaitI ==
  /\ inf.pc = "recv"
  /\ LET k == RecvPick(chan) IN
       IF chan = <<>>
         THEN /\ inf' = [NewFrame(inf) EXCEPT !.pc = "shape", !.cur = NoPayload,
                                              !.sleeps = <<>>]
              /\ UNCHANGED <<chan, recvSeq>>
         ELSE /\ inf' = [NewFrame(inf) EXCEPT !.pc = "shape", !.cur = chan[k],
                                              !.sleeps = <<>>]
              /\ chan' = SubSeq(chan, 1, k - 1) \o SubSeq(chan, k + 1, Len(chan))
              /\ recvSeq' = Append(recvSeq, chan[k])
  /\ UNCHANGED <<cap, sentSeq, failedIds, blockedIds, dropped, pipe>>

\* lines 57-58: socket.recv_bytes(0) blocks until a message is queued and
\* returns it; the message leaves the queue
RecvOkI ==
  /\ inf.pc = "recv"
  /\ chan # <<>>
  /\ LET k == RecvPick(chan) IN
       /\ inf' = [NewFrame(inf) EXCEPT !.pc = "shape", !.cur = chan[k],
                                       !.sleeps = <<>>]
       /\ chan' = SubSeq(chan, 1, k - 1) \o SubSeq(chan, k + 1, Len(chan))
       /\ recvSeq' = Append(recvSeq, chan[k])
  /\ UNCHANGED <<cap, sentSeq, failedIds, blockedIds, dropped, pipe>>

\* RecvErrI taking a receive error for a dead endpoint: it connects anew
RecvErrReconnectI ==
  /\ inf.pc = "recv"
  /\ inf.sockCalls <= 1
  /\ inf' = [NewFrame(inf) EXCEPT !.pc = "sock_create", !.outcome = "recv_err",
                                  !.log = {"Failed to receive frame"},
                                  !.sockCalls = @ + 1, !.att = 0, !.fail = 0]
  /\ UNCHANGED <<cap, varsCh>>

\* lines 64-67: recv_bytes returns Err: logged, sleep 1 s, same socket
RecvErrI ==
  /\ inf.pc = "recv"
  /\ inf' = [NewFrame(inf) EXCEPT !.pc = "recv", !.outcome = "recv_err",
                                  !.log = {"Failed to receive frame"},
                                  !.sleeps = <<RecvRetryMs>>]
  /\ UNCHANGED <<cap, varsCh>>

\* FromShapeVecOk accepting a vector shorter than the shape asks for
FromShapeVecOkShorter(shape, len) == len <= Product(shape)

\* process_frame, line 106: Array::from_shape_vec(shape, v) is Ok exactly when
\* v.len() is the product of the shape
FromShapeVecOk(shape, len) == len = Product(shape)

\* process_frame, line 106, shape fits: go on to the inference run
ShapeOkI ==
  /\ inf.pc = "shape"
  /\ FromShapeVecOk(TensorShape, inf.cur.len)
  /\ inf' = [inf EXCEPT !.pc = "run"]
  /\ UNCHANGED <<cap, varsCh>>

\* ShapeErrI with the error passed on by `?` in run_processing_loop as well
ShapeErrReturnI ==
  /\ inf.pc = "shape"
  /\ ~FromShapeVecOk(TensorShape, inf.cur.len)
  /\ inf' = [inf EXCEPT !.pc = "returned_err", !.outcome = "shape_err",
                        !.cur = NoPayload]
  /\ UNCHANGED <<cap, varsCh>>

\* process_frame, line 106 and run_processing_loop, line 61: ShapeError is
\* returned by `?` and logged
ShapeErrI ==
  /\ inf.pc = "shape"
  /\ ~FromShapeVecOk(TensorShape, inf.cur.len)
  /\ inf' = [inf EXCEPT !.pc = "recv", !.outcome = "shape_err", !.cur = NoPayload,
                        !.log = {"Error during inference"}]
  /\ UNCHANGED <<cap, varsCh>>

\* process_frame, lines 109-110 and line 60: session.run returns Ok and the
\* outputs are printed
RunOkI ==
  /\ inf.pc = "run"
  /\ inf' = [inf EXCEPT !.pc = "recv", !.outcome = "ok", !.emits = @ + 1,
                        !.cur = NoPayload]
  /\ UNCHANGED <<cap, varsCh>>

\* RunErrI taking an inference error for a bad session: it loads the model anew
RunErrReloadI ==
  /\ inf.pc = "run"
  /\ inf.modelCalls <= 1
  /\ inf' = [inf EXCEPT !.pc = "model_load", !.outcome = "run_err", !.cur = NoPayload,
                        !.log = {"Error during inference"},
                        !.modelCalls = @ + 1, !.att = 0, !.fail = 0]
  /\ UNCHANGED <<cap, varsCh>>

\* process_frame, line 109 and line 61: session.run returns Err: logged
RunErrI ==
  /\ inf.pc = "run"
  /\ inf' = [inf EXCEPT !.pc = "recv", !.outcome = "run_err", !.cur = NoPayload,
                        !.log = {"Error during inference"}]
  /\ UNCHANGED <<cap, varsCh>>

InferenceNext ==
  \/ CallSetupSocketI \/ SockCreateOkI \/ SockCreateErrI \/ SockConnectOkI
  \/ SockConnectErrI \/ SockSleepI \/ SockRetI \/ EnvBuildOkI \/ EnvBuildPanicI
  \/ CallSetupModelI \/ ModelLoadOkI \/ ModelLoadErrI \/ ModelRetI
  \/ RecvOkI \/ RecvErrI \/ ShapeOkI \/ ShapeErrI \/ RunOkI \/ RunErrI

Next == CaptureNext \/ InferenceNext

Spec == Init /\ [][Next]_vars

\* The Capture Agent keeps running: its one thread is never descheduled for
\* good.  Nothing is assumed of the Inference Agent, which may be absent,
\* stopped or stuck in a retry loop.
FairCapture == Spec /\ WF_vars(CaptureNext)

\* The Inference Agent's thread keeps running in its loop: a blocking receive
\* with a message queued returns it (recv_bytes(0), line 57), and
\* process_frame, once called, returns (lines 104-111).  Nothing is assumed of
\* the Capture Agent or of the Inference Agent's startup.
FairInference ==
  /\ Spec
  /\ WF_vars(RecvOkI)
  /\ WF_vars(ShapeOkI \/ ShapeErrI \/ RunOkI \/ RunErrI)

\* ================================================================ claims
\* statements of the Capture Agent inside setup_camera
CamSetupPcs == {"cam_open", "cam_setw", "cam_seth", "cam_ret", "cam_sleep"}
\* statements of the Capture Agent's service loop (lines 46-69)
CapLoopPcs == {"read", "encode", "send", "tick_sleep"} \cup CamSetupPcs
\* statements of the Inference Agent's service loop (lines 56-69)
InfLoopPcs == {"recv", "shape", "run"}

Ids(seq) == {seq[i].id : i \in 1..Len(seq)}

\* ---- C1
\* C1: at most one CameraHandle is open in the Capture Agent in every state,
\* re-acquisition included, and at most one ModelSession in the Inference Agent.
C1_AtMostOneOpen ==
  /\ Cardinality(cap.openCams) <= 1
  /\ Cardinality(inf.openSess) <= 1

\* ---- C2
\* C2: an acquisition routine is about to return only when its last attempt
\* succeeded: it has made exactly fail + 1 attempts, the handle it returns is
\* the one attempt fail + 1 produced, the Result it returns is Ok, and neither
\* agent has left run_*_loop through an acquisition failure.
C2_AcquireUntilSuccess ==
  /\ cap.pc = "sock_ret" =>
       /\ cap.att = cap.fail + 1
       /\ cap.tmpAtt = cap.att
       /\ cap.sockTmp # NoHandle /\ cap.sockTmp \in cap.openSocks
  /\ cap.pc = "cam_ret" =>
       /\ cap.att = cap.fail + 1
       /\ cap.tmpAtt = cap.att
       /\ cap.camNew # NoHandle /\ cap.camNew \in cap.openCams
  /\ inf.pc = "sock_ret" =>
       /\ inf.res = "ok"
       /\ inf.att = inf.fail + 1
       /\ inf.tmpAtt = inf.att
       /\ inf.sockTmp # NoHandle /\ inf.sockTmp \in inf.openSocks
  /\ inf.pc = "model_ret" =>
       /\ inf.res = "ok"
       /\ inf.att = inf.fail + 1
       /\ inf.tmpAtt = inf.att
       /\ inf.sessTmp # NoHandle /\ inf.sessTmp \in inf.openSess
  /\ cap.pc \in CapLoopPcs => cap.sock # NoHandle /\ cap.sock \in cap.openSocks
  /\ cap.pc \in CapLoopPcs \ CamSetupPcs => cap.cam # NoHandle /\ cap.cam \in cap.openCams
  /\ inf.pc \in InfLoopPcs =>
       /\ inf.sock # NoHandle /\ inf.sock \in inf.openSocks
       /\ inf.sess # NoHandle /\ inf.sess \in inf.openSess
  /\ inf.pc # "returned_err"
  /\ inf.pc = "panicked" => inf.att = 0 /\ inf.fail = 0

\* two routines, one in each agent, returning after MaxFail failed attempts
C2_Witness ==
  /\ cap.pc = "cam_ret" /\ cap.fail = MaxFail /\ cap.att = MaxFail + 1
  /\ inf.pc = "sock_ret" /\ inf.fail = MaxFail /\ inf.att = MaxFail + 1

\* ---- C3
\* C3: a frame whose send would have blocked is dropped: it is in no queue and
\* in no later send, `encoded` no longer holds it, every send attempt carries
\* the frame of the newest camera read, and after a would-block the loop is at
\* its sleep or its next read, which nothing of the consumer guards.
C3_WouldBlockDrops ==
  /\ \A id \in blockedIds :
       /\ id \notin Ids(chan) /\ id \notin Ids(sentSeq) /\ id \notin Ids(recvSeq)
       /\ cap.enc.id # id
  /\ cap.pc = "send" =>
       /\ cap.enc.id = cap.frameSeq /\ cap.frame = cap.frameSeq
       /\ cap.sends = 0
  /\ cap.outcome = "send_eagain" =>
       /\ cap.pc \in {"tick_sleep", "read"}
       /\ cap.enc = NoPayload
       /\ cap.sends = 1
       /\ cap.pc = "tick_sleep" => cap.frame \in blockedIds

\* a frame was sent, the next frame's send would have blocked, and the frame
\* of the read after that is at the send
C3_Witness ==
  /\ 1 \in Ids(sentSeq)
  /\ 2 \in blockedIds
  /\ cap.pc = "send" /\ cap.enc.id = 3

\* ---- C4
\* C4: from a failed camera read until the next read, the Capture Agent is
\* inside one call of setup_camera, or past it with exactly one call completed
\* and `cam` holding the handle that call returned; nothing is sent meanwhile.
C4_OneReacquisition ==
  cap.outcome = "read_err" =>
    /\ cap.pc \in CamSetupPcs \cup {"tick_sleep", "read"}
    /\ cap.pc \in CamSetupPcs => cap.reacq = 0 /\ cap.camRetTo = "reacq"
    /\ cap.pc \in {"tick_sleep", "read"} =>
         /\ cap.reacq = 1
         /\ cap.cam = cap.lastCamRet
         /\ cap.cam # NoHandle /\ cap.cam \in cap.openCams
         /\ cap.failedCam \notin cap.openCams
    /\ cap.sends = 0 /\ cap.frame = NoFrame /\ cap.enc = NoPayload

\* the read after a re-acquisition is about to be made
C4_Witness ==
  /\ cap.pc = "read" /\ cap.outcome = "read_err" /\ cap.reacq = 1
  /\ cap.readErrs = 1

\* ---- C5
\* C5: the step that finds an empty frame, and the step that finds a shape
\* mismatch, change no handle, call no acquisition routine and leave the agent
\* at the next statement of its loop (the tick's sleep, the next receive).
C5_Swallowed ==
  [][ /\ (cap.pc = "read" /\ cap' # cap /\ cap'.outcome = "empty") =>
           /\ cap'.pc = "tick_sleep"
           /\ cap'.cam = cap.cam /\ cap'.sock = cap.sock
           /\ cap'.openCams = cap.openCams /\ cap'.openSocks = cap.openSocks
           /\ cap'.camOpens = cap.camOpens /\ cap'.sockCalls = cap.sockCalls
      /\ (inf.pc = "shape" /\ inf' # inf /\ inf'.outcome = "shape_err") =>
           /\ inf'.pc = "recv"
           /\ inf'.sock = inf.sock /\ inf'.sess = inf.sess
           /\ inf'.openSocks = inf.openSocks /\ inf'.openSess = inf.openSess
           /\ inf'.sockCalls = inf.sockCalls /\ inf'.modelCalls = inf.modelCalls
           /\ inf'.loadsOk = inf.loadsOk
    ]_vars

\* both have just happened, with the handles of startup still in place
C5_Witness ==
  /\ cap.outcome = "empty" /\ cap.pc = "tick_sleep" /\ cap.camOpens = 1
  /\ inf.outcome = "shape_err" /\ inf.pc = "recv" /\ inf.loadsOk = 1

\* ---- C6
\* C6: after a steady-state error of any of the six kinds a diagnostic has been
\* written, the frame is gone and the loop is at its next iteration.
C6_EveryErrorLogged ==
  /\ cap.outcome \in {"empty", "encode_err", "send_eagain", "send_err"} =>
       /\ cap.log # {}
       /\ cap.enc = NoPayload
       /\ cap.pc \in {"tick_sleep", "read"}
  /\ inf.outcome \in {"recv_err", "shape_err", "run_err"} =>
       /\ inf.log # {}
       /\ inf.cur = NoPayload
       /\ inf.pc = "recv"

\* ---- C7
\* C7: each agent calls setup_socket once; from then on the only socket it has
\* open is the one that call returned, whatever send or receive errors occur;
\* after a receive error the Inference Agent has slept 1 s and is at the
\* receive again.
C7_EndpointHeld ==
  /\ cap.sockCalls <= 1 /\ inf.sockCalls <= 1
  /\ cap.pc \in CapLoopPcs =>
       cap.sockCalls = 1 /\ cap.sock # NoHandle /\ cap.openSocks = {cap.sock}
  /\ inf.pc \in InfLoopPcs =>
       inf.sockCalls = 1 /\ inf.sock # NoHandle /\ inf.openSocks = {inf.sock}
  /\ inf.outcome = "recv_err" =>
       inf.pc = "recv" /\ inf.sleeps = <<RecvRetryMs>>
  /\ cap.outcome \in {"send_eagain", "send_err"} => cap.pc \in {"tick_sleep", "read"}

\* a send error and a receive error have both just happened
C7_Witness ==
  /\ cap.outcome = "send_err" /\ cap.pc = "read"
  /\ inf.outcome = "recv_err" /\ inf.pc = "recv"

\* ---- C8
\* C8: the model is loaded once: setup_model is called once, it returns after
\* fail failed attempts and one successful one, and in the loop the one open
\* session is the one it returned, whatever the frames' outcomes.
C8_ModelLoadedOnce ==
  /\ inf.modelCalls <= 1 /\ inf.loadsOk <= 1
  /\ inf.pc = "model_load" => inf.loadsOk = 0 /\ inf.att = inf.fail
  /\ inf.pc = "model_ret" => inf.loadsOk = 1 /\ inf.att = inf.fail + 1
  /\ inf.pc \in InfLoopPcs =>
       /\ inf.modelCalls = 1 /\ inf.loadsOk = 1
       /\ inf.sess # NoHandle /\ inf.openSess = {inf.sess}

\* the spec's scenario: three failed loads, then the one that succeeds
C8_Witness ==
  inf.pc = "model_ret" /\ inf.fail = 3 /\ inf.att = 4 /\ inf.loadsOk = 1

\* ---- C9
\* C9: every received payload equals a payload whose send returned Ok, no
\* frame is received twice, and no frame whose send failed is received.
C9_AtMostOnce ==
  /\ \A i \in 1..Len(recvSeq) : \E j \in 1..Len(sentSeq) : recvSeq[i] = sentSeq[j]
  /\ \A i, j \in 1..Len(recvSeq) : recvSeq[i].id = recvSeq[j].id => i = j
  /\ \A i \in 1..Len(recvSeq) : recvSeq[i].id \notin failedIds
  /\ \A i \in 1..Len(chan) : \E j \in 1..Len(sentSeq) : chan[i] = sentSeq[j]

\* two frames received and one that failed to send
C9_Witness ==
  Len(recvSeq) >= 2 /\ failedIds # {}

\* ---- C10
\* C10: as long as no frame was dropped, the frames sent are the frames
\* captured, in capture order, and the frames received are a prefix of them.
C10_SendOrder ==
  ~dropped =>
    /\ \A i \in 1..Len(sentSeq) : sentSeq[i].id = i
    /\ Len(recvSeq) <= Len(sentSeq)
    /\ \A i \in 1..Len(recvSeq) : recvSeq[i] = sentSeq[i]

\* three frames sent and received with none dropped
C10_Witness ==
  ~dropped /\ Len(recvSeq) = 3

\* ---- C11
\* C11: whatever the Inference Agent does or fails to do, the Capture Agent
\* comes to the end of a tick again and again, so that a send attempt, also
\* one on a full transport or one without a peer, is followed by the tick's
\* sleep.
C11_NeverBlocksOnConsumer == []<>(cap.pc = "tick_sleep" /\ cap.sends <= 1)

\* a tick ended with a would-block while the Inference Agent had not even
\* started, and the next read is due
C11_Witness ==
  /\ inf.pc = "start"
  /\ cap.pc = "read" /\ cap.outcome = "send_eagain" /\ cap.frameSeq = 2

\* ---- C12
\* C12: a step taken inside a service loop ends inside that loop: whatever a
\* read, an encode, a send, a re-acquisition, a receive, a tensor construction
\* or an inference run returns, neither function returns and neither process
\* exits.
C12_LoopNeverExits ==
  [][/\ cap.pc \in CapLoopPcs => cap'.pc \in CapLoopPcs
     /\ inf.pc \in InfLoopPcs => inf'.pc \in InfLoopPcs]_vars

\* both agents are in their loops after an error each: the Capture Agent has
\* re-acquired the camera after a failed read, the Inference Agent's run failed
C12_Witness ==
  /\ cap.pc = "read" /\ cap.outcome = "read_err" /\ cap.reacq = 1
  /\ inf.pc = "recv" /\ inf.outcome = "run_err"

\* ---- C13
\* C13: with nothing queued the Inference Agent at its receive takes no step
\* other than a receive error, so that no frame is received or processed; and
\* every frame queued while the Inference Agent is in its loop is in the end
\* the frame handed to process_frame.
C13_BlockingReceive ==
  /\ [][inf.pc = "recv" /\ chan = <<>> /\ inf' # inf =>
          /\ inf'.pc = "recv" /\ inf'.outcome = "recv_err"
          /\ inf'.cur = NoPayload /\ recvSeq' = recvSeq]_vars
  /\ \A id \in 1..MaxFrames :
       (id \in Ids(chan) /\ inf.pc \in InfLoopPcs)
         ~> (inf.pc = "shape" /\ inf.cur.id = id)

\* the Inference Agent waits at its receive with nothing queued, after it has
\* received a frame that had been queued behind another one
C13_Witness ==
  /\ inf.pc = "recv" /\ chan = <<>> /\ inf.outcome # "recv_err"
  /\ Len(recvSeq) = 2 /\ recvSeq[2].id = 3

\* ---- C14
\* C14: when a camera read is due after a tick, the Capture Agent has slept
\* once, for 33 ms, since that tick's last operation (the send, the encode,
\* the read, or the camera open that ended a re-acquisition), whatever the
\* tick's outcome was; before that sleep it has not slept since that operation;
\* and no sleep precedes the first read.
C14_OneTickSleep ==
  /\ TickMs = 33
  /\ cap.pc \in {"encode", "send", "tick_sleep"} => cap.sleeps = <<>>
  /\ cap.pc = "read" =>
       /\ cap.outcome \in {"none", "sent", "send_eagain", "send_err",
                           "encode_err", "empty", "read_err"}
       /\ cap.sleeps = IF cap.outcome = "none" THEN <<>> ELSE <<TickMs>>

\* the next read is due after a tick whose encode failed, and an earlier tick
\* had re-acquired the camera
C14_Witness ==
  /\ cap.pc = "read" /\ cap.outcome = "encode_err" /\ cap.sleeps = <<TickMs>>
  /\ cap.readErrs = 1

\* ---- C15
\* C15: the tensor shape asks for 150528 bytes; the inference run is reached
\* only with a payload of that length; a received payload of another length
\* ends as a logged per-frame error with nothing emitted and the agent back at
\* its receive; and a frame's result is emitted, once, exactly when the tensor
\* construction and the inference run both succeeded.
C15_ShapeMismatchIsPerFrame ==
  /\ Product(TensorShape) = 150528
  /\ inf.emits <= 1
  /\ inf.pc = "shape" =>
       inf.emits = 0 /\ recvSeq # <<>> /\ inf.cur = recvSeq[Len(recvSeq)]
  /\ inf.pc = "run" =>
       inf.emits = 0 /\ inf.outcome = "none" /\ inf.cur.len = 150528
  /\ inf.emits = 1 <=> inf.outcome = "ok"
  /\ inf.outcome \in {"ok", "shape_err", "run_err"} =>
       /\ inf.pc = "recv" /\ recvSeq # <<>>
       /\ inf.outcome = "shape_err" <=> recvSeq[Len(recvSeq)].len # 150528
       /\ inf.outcome # "ok" => inf.log = {"Error during inference"}

\* a frame's result has been emitted after an earlier frame of another length
\* had been received
C15_Witness ==
  /\ inf.pc = "recv" /\ inf.outcome = "ok" /\ inf.emits = 1
  /\ Len(recvSeq) = 2 /\ recvSeq[1].len # Product(TensorShape)

\* ---- C16
\* C16: when an acquisition routine is about to make an attempt after a failed
\* one, it has slept exactly once since the failed attempt, for the routine's
\* interval, however many attempts have failed: 1000 ms in the Capture Agent's
\* setup_socket (after a failed socket creation and after a failed bind alike)
\* and setup_camera, 2000 ms in the Inference Agent's setup_socket, 5000 ms in
\* setup_model; and from a successful attempt up to the routine's return there
\* is no sleep.
C16_OneSleepPerRetry ==
  /\ BindRetryMs = 1000 /\ CamRetryMs = 1000
  /\ ConnectRetryMs = 2000 /\ ModelRetryMs = 5000
  /\ cap.pc = "sock_create" =>
       cap.sleeps = IF cap.fail = 0 THEN <<>> ELSE <<BindRetryMs>>
  /\ cap.pc = "cam_open" =>
       cap.sleeps = IF cap.fail = 0 THEN <<>> ELSE <<CamRetryMs>>
  /\ cap.pc \in {"sock_sleep", "cam_sleep"} => cap.fail > 0 /\ cap.sleeps = <<>>
  /\ cap.pc \in {"sock_bind", "sock_ret", "cam_call", "cam_setw", "cam_seth",
                 "cam_ret"} => cap.sleeps = <<>>
  /\ inf.pc = "sock_create" =>
       inf.sleeps = IF inf.fail = 0 THEN <<>> ELSE <<ConnectRetryMs>>
  /\ inf.pc = "model_load" =>
       inf.sleeps = IF inf.fail = 0 THEN <<>> ELSE <<ModelRetryMs>>
  /\ inf.pc = "sock_sleep" => inf.fail > 0 /\ inf.sleeps = <<>>
  /\ inf.pc \in {"sock_connect", "sock_ret", "env_build", "model_call",
                 "model_ret"} => inf.sleeps = <<>>

\* the camera is about to be opened again in a re-acquisition after two failed
\* attempts, and the model is about to be loaded after two failed attempts
C16_Witness ==
  /\ cap.pc = "cam_open" /\ cap.camRetTo = "reacq" /\ cap.fail = 2
  /\ cap.sleeps = <<CamRetryMs>>
  /\ inf.pc = "model_load" /\ inf.fail = 2 /\ inf.sleeps = <<ModelRetryMs>>

\* ---- C17
\* C17: the width asked for is 640 and the height 480; from a successful open
\* to the return of setup_camera the handle of that open stays the one to be
\* returned, it is the call's first successful open, nothing is slept and
\* nothing is logged, whether the two settings were accepted or not; and a
\* refused setting is found only on the way to that return.
C17_ResolutionBestEffort ==
  /\ FrameWidth = 640 /\ FrameHeight = 480
  /\ cap.setFailed \subseteq {FrameWidth, FrameHeight}
  /\ cap.setFailed # {} => cap.pc \in {"cam_seth", "cam_ret"}
  /\ cap.pc \in {"cam_setw", "cam_seth", "cam_ret"} =>
       /\ cap.camNew # NoHandle /\ cap.camNew \in cap.openCams
       /\ cap.tmpAtt = cap.att /\ cap.att = cap.fail + 1
       /\ cap.sleeps = <<>> /\ cap.log = {}
  /\ cap.pc \in {"read", "encode", "send", "tick_sleep"} =>
       cap.cam # NoHandle /\ cap.cam = cap.lastCamRet

\* setup_camera is about to return the handle of its second attempt, the
\* first successful one, with both settings refused
C17_Witness ==
  /\ cap.pc = "cam_ret" /\ cap.setFailed = {FrameWidth, FrameHeight}
  /\ cap.fail = 1 /\ cap.att = 2

\* ---- C18
\* C18: a tick has at most one send attempt; the send is reached only with a
\* frame that was read, is not empty and was encoded, the buffer holding its
\* encoding; a tick whose read failed, whose frame was empty or whose encode
\* failed has no send attempt; and every message sent or queued is the
\* encoding of one captured frame, no frame having two messages.
C18_OneSendPerEncodedFrame ==
  /\ cap.sends <= 1
  /\ cap.pc = "send" =>
       /\ cap.sends = 0 /\ cap.outcome = "none"
       /\ cap.frame # NoFrame /\ cap.frame = cap.frameSeq
       /\ cap.enc.id = cap.frame /\ cap.enc.len \in PayloadLens
  /\ cap.outcome \in {"none", "read_err", "empty", "encode_err"} => cap.sends = 0
  /\ cap.outcome \in {"sent", "send_eagain", "send_err"} => cap.sends = 1
  /\ \A i \in 1..Len(sentSeq) :
       /\ sentSeq[i].id \in 1..cap.frameSeq /\ sentSeq[i].len \in PayloadLens
       /\ \A j \in 1..Len(sentSeq) : sentSeq[i].id = sentSeq[j].id => i = j
  /\ \A i \in 1..Len(chan) :
       chan[i].id \in 1..cap.frameSeq /\ chan[i].len \in PayloadLens
  /\ Len(sentSeq) + Cardinality(failedIds) <= cap.frameSeq

\* ---- C19
\* C19: as long as the Capture Agent holds no bound socket it is in
\* setup_socket or before it and no camera has been opened or is being opened;
\* as long as it holds no camera handle no read has been made.  As long as the
\* Inference Agent holds no connected socket, setup_model has not been called;
\* as long as it holds no session, which includes all of a model load that
\* keeps failing, nothing has been received or processed.
C19_StartupOrder ==
  /\ cap.sock = NoHandle =>
       /\ cap.pc \in {"start", "sock_create", "sock_bind", "sock_sleep", "sock_ret"}
       /\ cap.camOpens = 0 /\ cap.openCams = {} /\ cap.cam = NoHandle
  /\ cap.pc \in {"cam_call"} \cup CapLoopPcs =>
       cap.sock # NoHandle /\ cap.openSocks = {cap.sock}
  /\ cap.cam = NoHandle =>
       /\ cap.pc \notin {"read", "encode", "send", "tick_sleep"}
       /\ cap.frameSeq = 0 /\ cap.outcome = "none" /\ sentSeq = <<>>
  /\ inf.sock = NoHandle =>
       /\ inf.pc \in {"start", "sock_create", "sock_connect", "sock_sleep",
                      "sock_ret", "returned_err", "panicked"}
       /\ inf.modelCalls = 0 /\ inf.loadsOk = 0 /\ inf.openSess = {}
  /\ inf.pc \in {"model_call", "model_load", "model_ret"} =>
       inf.sock # NoHandle /\ inf.openSocks = {inf.sock}
  /\ inf.sess = NoHandle =>
       /\ inf.pc \notin InfLoopPcs
       /\ recvSeq = <<>> /\ inf.cur = NoPayload
       /\ inf.outcome = "none" /\ inf.emits = 0

\* the channel is full of frames while the model load has failed twice and is
\* being tried again: nothing has been received
C19_Witness ==
  /\ inf.pc = "model_load" /\ inf.fail = 2
  /\ Len(chan) = ChanCap /\ recvSeq = <<>>

====
